---------------------------- MODULE Spec2Model ----------------------------
(***************************************************************************)
(* Model of the colater server-side helpers:                               *)
(*   - src/lib/server-auth.ts      requireServerAuth, isAllowedUrl         *)
(*   - src/ai/flows/*.ts           vectoriseLogo, generateAudienceSuggestions *)
(*                                 and the AudienceStepClient component    *)
(*   - the Firebase config module  requireEnv, baseConfig, firebaseConfig  *)
(*   - the Firebase init module    initializeFirebaseApp                   *)
(*                                                                         *)
(* Four specifications share the module:                                   *)
(*   Spec          one server request at a time through the handlers       *)
(*   SpecUrl       isAllowedUrl applied to a bounded family of strings     *)
(*   SpecUrlCalls  isAllowedUrl called repeatedly in one process           *)
(*   SpecFirebase  the config module load and initializeFirebaseApp        *)
(* JavaScript strings that the code inspects character by character are    *)
(* sequences of one-character strings; opaque values (tokens, uids, error  *)
(* messages) are TLA+ strings.                                             *)
(***************************************************************************)
EXTENDS Integers, Sequences, FiniteSets, TLC

VARIABLES
    \* ---- server request (Spec) ----
    adminAuth,      \* TRUE iff '@/firebase/server' exported an initialised adminAuth
    falKey,         \* TRUE iff process.env.FAL_KEY is set and non-empty
    entry,          \* which exported function the client invoked
    pc,             \* position of the request inside the handler
    idToken,        \* the ID token argument (wrapper entry only)
    logoUrl,        \* input.logoUrl of vectoriseLogo
    authPc,         \* position inside requireServerAuth
    authResult,     \* settlement of the requireServerAuth promise
    verifyCalls,    \* tokens handed to adminAuth.verifyIdToken in this request
    decoded,        \* what adminAuth.verifyIdToken resolved with
    extCalls,       \* external calls issued in this request, in order
    outcome,        \* settlement of the invoked function's promise
    falResult,      \* what the awaited fal.subscribe settled with
    aiResult,       \* what the awaited ai.generate settled with
    \* ---- AudienceStepClient in the visitor's browser (Spec) ----
    currentUser,    \* auth.currentUser: "" for null, else the signed-in user
    clientPc,       \* position of the component's generateSuggestions effect
    suggestions,    \* the component's suggestions state
    \* ---- isAllowedUrl (SpecUrl) ----
    parts,          \* the pieces the argument string was assembled from
    url,            \* the argument string, a sequence of characters
    urlPc,          \* "ready" before the call, "done" after
    ret,            \* the outcome of isAllowedUrl(url)
    lastIndex,      \* lastIndex of each RegExp object of BLOCKED_PATTERNS
    calls,          \* the calls made so far, each with its argument and outcome
    \* ---- firebase config / init (SpecFirebase) ----
    env,            \* process.env restricted to the NEXT_PUBLIC_FIREBASE_* names
    configModule,   \* "unloaded" | "loaded" | "failed"
    firebaseConfig, \* the exported config object, once loaded
    configError,    \* the Error thrown by the module body, if any
    apps,           \* the Firebase SDK's app registry (getApps())
    initLog,        \* for each initializeApp invocation, getApps().length before it
    returned        \* the app instance returned by each initializeFirebaseApp call

clientVars == <<currentUser, clientPc, suggestions>>
serverVars == <<adminAuth, falKey, entry, pc, idToken, logoUrl, authPc, authResult,
                verifyCalls, decoded, extCalls, outcome, falResult, aiResult, clientVars>>
urlVars == <<parts, url, urlPc, ret, lastIndex, calls>>
firebaseVars == <<env, configModule, firebaseConfig, configError, apps, initLog, returned>>
vars == <<serverVars, urlVars, firebaseVars>>

None == [kind |-> "none"]

-----------------------------------------------------------------------------
(***************************************************************************)
(* requireServerAuth  (src/lib/server-auth.ts:3-16)                        *)
(***************************************************************************)

\* The ID tokens a client may send.  "" is what a signed-out client sends.
Tokens == {"", "tokAlice", "tokBob", "tokExpired", "tokGarbage"}

\* Ground truth of the identity provider: the tokens it issued and still honours.
UidOf == [t \in {"tokAlice", "tokBob"} |-> IF t = "tokAlice" THEN "alice" ELSE "bob"]

\* adminAuth.verifyIdToken(token): resolves with the decoded token of a token the
\* provider honours, and may reject any token (expired, malformed, revoked, network).
VerifyIdTokenOutcomes(tok) ==
    {[ok |-> FALSE, uid |-> "", reason |-> r] :
        r \in {"auth/id-token-expired", "auth/argument-error", "network"}}
    \cup (IF tok \in DOMAIN UidOf
          THEN {[ok |-> TRUE, uid |-> UidOf[tok], reason |-> ""]}
          ELSE {})

ErrNotInitialized == "Firebase Admin SDK not initialized"
ErrAuthRequired == "Authentication required"
ErrInvalidToken == "Invalid or expired authentication token"

\* A plausible slip: the two guards in the other order.
requireServerAuthGuard_TokenFirst(admin, tok) ==
    IF tok = "" THEN [next |-> "rejected", error |-> ErrAuthRequired]
    ELSE IF ~admin THEN [next |-> "rejected", error |-> ErrNotInitialized]
    ELSE [next |-> "verify", error |-> ""]

\* Lines 4-9: the two synchronous guards.  "verify" means line 11 is reached.
requireServerAuthGuard(admin, tok) ==
    IF ~admin THEN [next |-> "rejected", error |-> ErrNotInitialized]
    ELSE IF tok = "" THEN [next |-> "rejected", error |-> ErrAuthRequired]
    ELSE [next |-> "verify", error |-> ""]

\* A plausible slip: the catch block swallows the failure and returns the
\* (empty) uid instead of throwing.
requireServerAuthSettle_SwallowCatch(v) ==
    IF v.ok THEN [kind |-> "resolved", uid |-> v.uid, error |-> ""]
    ELSE [kind |-> "resolved", uid |-> "", error |-> ""]

\* A plausible slip: the catch block rethrows the SDK's own error.
requireServerAuthSettle_LeakReason(v) ==
    IF v.ok THEN [kind |-> "resolved", uid |-> v.uid, error |-> ""]
    ELSE [kind |-> "rejected", uid |-> "", error |-> v.reason]

\* Lines 10-15: settle on the outcome v of the awaited verifyIdToken.
requireServerAuthSettle(v) ==
    IF v.ok THEN [kind |-> "resolved", uid |-> v.uid, error |-> ""]
    ELSE [kind |-> "rejected", uid |-> "", error |-> ErrInvalidToken]

NoAuth == [kind |-> "none", uid |-> "", error |-> ""]
NoDecoded == [ok |-> FALSE, uid |-> "", reason |-> "none"]

\* requireServerAuth runs from its first line up to the await (or a throw).
RequireServerAuthEnter ==
    /\ authPc = "entered"
    /\ LET g == requireServerAuthGuard(adminAuth, idToken) IN
        IF g.next = "rejected"
        THEN /\ authPc' = "settled"
             /\ authResult' = [kind |-> "rejected", uid |-> "", error |-> g.error]
             /\ UNCHANGED verifyCalls
        ELSE /\ authPc' = "verifying"
             /\ verifyCalls' = Append(verifyCalls, idToken)
             /\ UNCHANGED authResult
    /\ UNCHANGED <<adminAuth, falKey, entry, pc, idToken, logoUrl, decoded, extCalls,
                   outcome, falResult, aiResult,
                   clientVars, urlVars, firebaseVars>>

\* The awaited adminAuth.verifyIdToken(idToken) settles.
VerifyIdTokenSettles ==
    /\ authPc = "verifying"
    /\ \E v \in VerifyIdTokenOutcomes(idToken) :
        /\ decoded' = v
        /\ authResult' = requireServerAuthSettle(v)
    /\ authPc' = "settled"
    /\ UNCHANGED <<adminAuth, falKey, entry, pc, idToken, logoUrl, verifyCalls,
                   extCalls, outcome, falResult, aiResult,
                   clientVars, urlVars, firebaseVars>>

-----------------------------------------------------------------------------
(***************************************************************************)
(* vectoriseLogo  (src/ai/flows/vectorise-logo.ts:16-83)                   *)
(***************************************************************************)

\* input.logoUrl as the client sent it: zod accepts any string, nothing else.
LogoInputs ==
    {[isString |-> TRUE, text |-> "https://pub-abc123.r2.dev/logos/brand-logo.png"],
     [isString |-> TRUE, text |-> "http://169.254.169.254/latest/meta-data/"],
     [isString |-> FALSE, text |-> ""]}
NoLogo == [isString |-> FALSE, text |-> "none"]

\* What the awaited fal.subscribe can do: throw (with or without a body), or
\* resolve with data that has, or lacks, image.url.
FalOutcomes ==
    {[kind |-> "throw", body |-> "{\"detail\":\"bad image\"}", message |-> "ApiError", url |-> ""],
     [kind |-> "throw", body |-> "", message |-> "socket hang up", url |-> ""],
     [kind |-> "data", body |-> "", message |-> "", url |-> ""],
     [kind |-> "data", body |-> "", message |-> "", url |-> "https://v3.fal.media/files/abc/output.svg"],
     [kind |-> "data", body |-> "", message |-> "", url |-> "https://cdn.example.net/out.svg"]}

NoFalResult == [kind |-> "none", body |-> "", message |-> "", url |-> ""]

\* What the awaited fetch(vectorUrl) can do.
FetchOutcomes ==
    {[kind |-> "throw", ok |-> FALSE, statusText |-> "", contentType |-> "", message |-> "fetch failed"],
     [kind |-> "response", ok |-> FALSE, statusText |-> "Not Found", contentType |-> "", message |-> ""],
     [kind |-> "response", ok |-> TRUE, statusText |-> "OK", contentType |-> "image/svg+xml", message |-> ""],
     [kind |-> "response", ok |-> TRUE, statusText |-> "OK", contentType |-> "", message |-> ""]}

Resolved(v) == [kind |-> "resolved", value |-> v]
Rejected(e) == [kind |-> "rejected", error |-> e]
ExtCall(api, arg) == [api |-> api, arg |-> arg]

\* Lines 77-82: every error thrown inside the try block is rewrapped.
FalFailure(body, message) ==
    Rejected("Fal vectorization failed: " \o (IF body # "" THEN body ELSE message))

\* Lines 19-44: from the first line up to the awaited fal.subscribe.
vectoriseLogoStart ==
    /\ pc = "vl_start"
    /\ IF ~logoUrl.isString
       THEN /\ outcome' = Rejected("ZodError")
            /\ pc' = "done"
            /\ UNCHANGED extCalls
       ELSE IF ~falKey
       THEN /\ outcome' = Rejected("FAL_KEY environment variable is not set")
            /\ pc' = "done"
            /\ UNCHANGED extCalls
       ELSE /\ extCalls' = Append(extCalls, ExtCall("fal.subscribe", logoUrl.text))
            /\ pc' = "vl_subscribe"
            /\ UNCHANGED outcome
    /\ UNCHANGED <<adminAuth, falKey, entry, idToken, logoUrl, authPc, authResult,
                   verifyCalls, decoded, falResult, aiResult,
                   clientVars, urlVars, firebaseVars>>

\* A plausible slip: the server fetches the caller's logoUrl itself.
FalSubscribeSettles_FetchesLogoUrl ==
    /\ pc = "vl_subscribe"
    /\ \E r \in FalOutcomes :
        /\ falResult' = r
        /\ IF r.kind = "throw"
           THEN /\ outcome' = FalFailure(r.body, r.message)
                /\ pc' = "done"
                /\ UNCHANGED extCalls
           ELSE IF r.url = ""
           THEN /\ outcome' = FalFailure("", "Fal did not return an image URL.")
                /\ pc' = "done"
                /\ UNCHANGED extCalls
           ELSE /\ extCalls' = Append(extCalls, ExtCall("fetch", logoUrl.text))
                /\ pc' = "vl_fetch"
                /\ UNCHANGED outcome
    /\ UNCHANGED <<adminAuth, falKey, entry, idToken, logoUrl, authPc, authResult,
                   verifyCalls, decoded, aiResult,
                   clientVars, urlVars, firebaseVars>>

\* Lines 44-64: fal.subscribe settles; on an image url the code fetches it.
FalSubscribeSettles ==
    /\ pc = "vl_subscribe"
    /\ \E r \in FalOutcomes :
        /\ falResult' = r
        /\ IF r.kind = "throw"
           THEN /\ outcome' = FalFailure(r.body, r.message)
                /\ pc' = "done"
                /\ UNCHANGED extCalls
           ELSE IF r.url = ""
           THEN /\ outcome' = FalFailure("", "Fal did not return an image URL.")
                /\ pc' = "done"
                /\ UNCHANGED extCalls
           ELSE /\ extCalls' = Append(extCalls, ExtCall("fetch", r.url))
                /\ pc' = "vl_fetch"
                /\ UNCHANGED outcome
    /\ UNCHANGED <<adminAuth, falKey, entry, idToken, logoUrl, authPc, authResult,
                   verifyCalls, decoded, aiResult,
                   clientVars, urlVars, firebaseVars>>

\* Lines 64-75: fetch settles; the body becomes a base64 data URI.
FetchSettles ==
    /\ pc = "vl_fetch"
    /\ \E f \in FetchOutcomes :
        outcome' =
            IF f.kind = "throw" THEN FalFailure("", f.message)
            ELSE IF ~f.ok
            THEN FalFailure("", "Failed to fetch generated vector: " \o f.statusText)
            ELSE Resolved("data:" \o (IF f.contentType # "" THEN f.contentType
                                       ELSE "image/svg+xml") \o ";base64,<body>")
    /\ pc' = "done"
    /\ UNCHANGED <<adminAuth, falKey, entry, idToken, logoUrl, authPc, authResult,
                   verifyCalls, decoded, extCalls, falResult, aiResult,
                   clientVars, urlVars, firebaseVars>>

-----------------------------------------------------------------------------
(***************************************************************************)
(* generateAudienceSuggestions                                             *)
(*   (src/ai/flows/generate-audience-suggestions.ts:17-63)                 *)
(***************************************************************************)

FallbackSuggestions ==
    <<"Tech Professionals", "Young Parents", "Fitness Enthusiasts", "Eco-conscious Foodies">>

\* What the awaited ai.generate can do: throw, resolve without output, or
\* resolve with an output that passed the 4-string schema.
AiOutcomes ==
    {[kind |-> "throw", output |-> <<>>],
     [kind |-> "null", output |-> <<>>],
     [kind |-> "output",
      output |-> <<"Enterprise IT Teams", "Remote-First Startups", "B2B SaaS Leaders", "DevOps Engineers">>]}

NoAiResult == [kind |-> "none", output |-> <<>>]

\* A plausible slip: the check of result.output is missing.
generateAudienceSuggestionsSettle_NoOutputCheck(r) ==
    IF r.kind = "throw" THEN FallbackSuggestions ELSE r.output

\* Lines 44-62: the value the function resolves with, given ai.generate's outcome.
generateAudienceSuggestionsSettle(r) ==
    IF r.kind = "output" THEN r.output ELSE FallbackSuggestions

\* Lines 20-49: build the prompt and issue ai.generate.
generateAudienceSuggestionsStart ==
    /\ pc = "gas_start"
    /\ extCalls' = Append(extCalls, ExtCall("ai.generate", "anthropic/claude-sonnet-4-5-20250929"))
    /\ pc' = "gas_generate"
    /\ UNCHANGED <<adminAuth, falKey, entry, idToken, logoUrl, authPc, authResult,
                   verifyCalls, decoded, outcome, falResult, aiResult,
                   clientVars, urlVars, firebaseVars>>

\* The server action getAudienceSuggestions of app/actions.ts wraps the flow's
\* value as {success: true, data}; a direct call gets the value itself.
AiGenerateSettles ==
    /\ pc = "gas_generate"
    /\ \E r \in AiOutcomes :
        /\ aiResult' = r
        /\ LET v == generateAudienceSuggestionsSettle(r) IN
           outcome' = IF entry = "getAudienceSuggestions"
                      THEN Resolved([success |-> TRUE, suggestions |-> v, error |-> ""])
                      ELSE Resolved(v)
    /\ pc' = "done"
    /\ UNCHANGED <<adminAuth, falKey, entry, idToken, logoUrl, authPc, authResult,
                   verifyCalls, decoded, extCalls, falResult,
                   clientVars, urlVars, firebaseVars>>

-----------------------------------------------------------------------------
(***************************************************************************)
(* getAudienceSuggestions(idToken, input) of app/actions.ts, as the        *)
(* hardening plan (Task 4) prescribes it and AudienceStepClient calls it:  *)
(* requireServerAuth first, inside the try block; any failure becomes      *)
(* {success: false, error}.                                                *)
(***************************************************************************)

getAudienceSuggestionsAfterAuth ==
    /\ pc = "w_auth"
    /\ authPc = "settled"
    /\ IF authResult.kind = "resolved"
       THEN /\ pc' = "gas_start"
            /\ UNCHANGED outcome
       ELSE /\ outcome' = Resolved([success |-> FALSE, suggestions |-> <<>>,
                                    error |-> authResult.error])
            /\ pc' = "done"
    /\ UNCHANGED <<adminAuth, falKey, entry, idToken, logoUrl, authPc, authResult,
                   verifyCalls, decoded, extCalls, falResult, aiResult,
                   clientVars, urlVars, firebaseVars>>

-----------------------------------------------------------------------------
(***************************************************************************)
(* AudienceStepClient                                                      *)
(*   (src/ai/flows/generate-audience-suggestions.ts:79-119)                *)
(* The effect generateSuggestions runs once per mount.                     *)
(***************************************************************************)

\* Lines 84-89: the initial value of the suggestions state.
DefaultSuggestions ==
    <<"Tech Professionals", "Young Parents", "Fitness Enthusiasts", "Eco-conscious Foodies">>

\* auth.currentUser: "" stands for null (nobody signed in).
Users == {"", "alice"}

\* user.getIdToken(): resolves with the user's token or rejects (network).
GetIdTokenOutcomes(user) ==
    {[ok |-> TRUE, token |-> "tokAlice"], [ok |-> FALSE, token |-> ""]}

\* A plausible slip: a placeholder instead of the empty string.
idTokenOrEmpty_Placeholder(user) ==
    IF user = "" THEN {[ok |-> TRUE, token |-> "anonymous"]} ELSE GetIdTokenOutcomes(user)

\* Line 101: await auth.currentUser?.getIdToken() ?? ''
\* The set of results: a token to send, or a rejection caught at line 110.
idTokenOrEmpty(user) ==
    IF user = "" THEN {[ok |-> TRUE, token |-> ""]} ELSE GetIdTokenOutcomes(user)

\* Lines 94-105: the effect runs up to the awaited getAudienceSuggestions.
AudienceStepClientMount ==
    /\ clientPc = "unmounted"
    /\ pc = "idle"
    /\ \E hasContext \in BOOLEAN : \E t \in idTokenOrEmpty(currentUser) :
        IF hasContext /\ t.ok
        THEN /\ idToken' = t.token
             /\ entry' = "getAudienceSuggestions"
             /\ pc' = "w_auth"
             /\ authPc' = "entered"
             /\ clientPc' = "awaiting"
        ELSE /\ clientPc' = "settled"
             /\ UNCHANGED <<idToken, entry, pc, authPc>>
    /\ UNCHANGED <<adminAuth, falKey, logoUrl, authResult, verifyCalls, decoded,
                   extCalls, outcome, falResult, aiResult, currentUser, suggestions,
                   urlVars, firebaseVars>>

\* Lines 107-115: the awaited server action resolved.
AudienceStepClientReceives ==
    /\ clientPc = "awaiting"
    /\ pc = "done"
    /\ suggestions' = IF outcome.value.success /\ outcome.value.suggestions # <<>>
                      THEN outcome.value.suggestions
                      ELSE suggestions
    /\ clientPc' = "settled"
    /\ UNCHANGED <<adminAuth, falKey, entry, pc, idToken, logoUrl, authPc, authResult,
                   verifyCalls, decoded, extCalls, outcome, falResult, aiResult,
                   currentUser, urlVars, firebaseVars>>

\* The visitor leaves the step; the next mount starts from the initial state.
AudienceStepClientUnmount ==
    /\ clientPc = "settled"
    /\ clientPc' = "unmounted"
    /\ suggestions' = DefaultSuggestions
    /\ UNCHANGED <<adminAuth, falKey, entry, pc, idToken, logoUrl, authPc, authResult,
                   verifyCalls, decoded, extCalls, outcome, falResult, aiResult,
                   currentUser, urlVars, firebaseVars>>

-----------------------------------------------------------------------------
(***************************************************************************)
(* A client invokes one of the exported server functions.  Each file under *)
(* ai/flows carries the 'use server' directive, so its exported async      *)
(* function is itself an endpoint a client can invoke, with no token.      *)
(***************************************************************************)

InvokeGetAudienceSuggestions ==
    /\ pc = "idle"
    /\ \E tok \in Tokens : idToken' = tok
    /\ entry' = "getAudienceSuggestions"
    /\ pc' = "w_auth"
    /\ authPc' = "entered"
    /\ UNCHANGED <<adminAuth, falKey, logoUrl, authResult, verifyCalls, decoded,
                   extCalls, outcome, falResult, aiResult,
                   clientVars, urlVars, firebaseVars>>

InvokeVectoriseLogo ==
    /\ pc = "idle"
    /\ \E in \in LogoInputs : logoUrl' = in
    /\ entry' = "vectoriseLogo"
    /\ pc' = "vl_start"
    /\ UNCHANGED <<adminAuth, falKey, idToken, authPc, authResult, verifyCalls, decoded,
                   extCalls, outcome, falResult, aiResult,
                   clientVars, urlVars, firebaseVars>>

InvokeGenerateAudienceSuggestions ==
    /\ pc = "idle"
    /\ entry' = "generateAudienceSuggestions"
    /\ pc' = "gas_start"
    /\ UNCHANGED <<adminAuth, falKey, idToken, logoUrl, authPc, authResult, verifyCalls,
                   decoded, extCalls, outcome, falResult, aiResult,
                   clientVars, urlVars, firebaseVars>>

\* The response has been delivered; the server is ready for the next request.
RequestDone ==
    /\ pc = "done"
    /\ clientPc # "awaiting"
    /\ pc' = "idle"
    /\ entry' = "none"
    /\ idToken' = ""
    /\ logoUrl' = NoLogo
    /\ authPc' = "idle"
    /\ authResult' = NoAuth
    /\ verifyCalls' = <<>>
    /\ decoded' = NoDecoded
    /\ extCalls' = <<>>
    /\ outcome' = None
    /\ falResult' = NoFalResult
    /\ aiResult' = NoAiResult
    /\ UNCHANGED <<adminAuth, falKey, clientVars, urlVars, firebaseVars>>

-----------------------------------------------------------------------------
(***************************************************************************)
(* Firebase config: requireEnv, baseConfig, firebaseConfig                 *)
(***************************************************************************)

EnvNames ==
    {"NEXT_PUBLIC_FIREBASE_PROJECT_ID", "NEXT_PUBLIC_FIREBASE_APP_ID",
     "NEXT_PUBLIC_FIREBASE_API_KEY", "NEXT_PUBLIC_FIREBASE_STORAGE_BUCKET",
     "NEXT_PUBLIC_FIREBASE_MESSAGING_SENDER_ID"}

\* A set variable holds the empty string or a non-empty value.
EnvValues == {"", "value-1"}

\* process.env: a name outside the domain reads as undefined.
Environments == UNION {[S -> EnvValues] : S \in SUBSET EnvNames}

\* !value of process.env[name]: undefined and '' are both falsy.
EnvFalsy(e, name) == name \notin DOMAIN e \/ e[name] = ""

\* The pre-hardening shape: a hardcoded fallback instead of a throw.
requireEnv_Fallback(e, name) ==
    [threw |-> FALSE, error |-> "",
     value |-> IF EnvFalsy(e, name) THEN "hardcoded-fallback" ELSE e[name]]

\* requireEnv(name): the value, or the Error it throws.
requireEnv(e, name) ==
    IF EnvFalsy(e, name)
    THEN [threw |-> TRUE, value |-> "",
          error |-> "Missing required environment variable: " \o name
                    \o ". Check your .env file."]
    ELSE [threw |-> FALSE, value |-> e[name], error |-> ""]

\* process.env.X || ''
EnvOrEmpty(e, name) == IF EnvFalsy(e, name) THEN "" ELSE e[name]

\* The module body: baseConfig's properties are evaluated in source order, the
\* first throw aborts the load; firebaseConfig spreads baseConfig and adds
\* authDomain.
LoadFirebaseConfig(e) ==
    LET p == requireEnv(e, "NEXT_PUBLIC_FIREBASE_PROJECT_ID")
        a == requireEnv(e, "NEXT_PUBLIC_FIREBASE_APP_ID")
        k == requireEnv(e, "NEXT_PUBLIC_FIREBASE_API_KEY")
    IN  IF p.threw THEN [threw |-> TRUE, error |-> p.error, config |-> None]
        ELSE IF a.threw THEN [threw |-> TRUE, error |-> a.error, config |-> None]
        ELSE IF k.threw THEN [threw |-> TRUE, error |-> k.error, config |-> None]
        ELSE [threw |-> FALSE, error |-> "",
              config |->
                [kind |-> "config",
                 projectId |-> p.value,
                 appId |-> a.value,
                 apiKey |-> k.value,
                 storageBucket |-> EnvOrEmpty(e, "NEXT_PUBLIC_FIREBASE_STORAGE_BUCKET"),
                 measurementId |-> "",
                 messagingSenderId |->
                    EnvOrEmpty(e, "NEXT_PUBLIC_FIREBASE_MESSAGING_SENDER_ID"),
                 authDomain |-> "studio-6830756272-ca1a2.firebaseapp.com"]]

\* The config module is imported for the first time.
LoadConfigModule ==
    /\ configModule = "unloaded"
    /\ LET r == LoadFirebaseConfig(env) IN
        /\ configModule' = IF r.threw THEN "failed" ELSE "loaded"
        /\ firebaseConfig' = r.config
        /\ configError' = r.error
    /\ UNCHANGED <<env, apps, initLog, returned, serverVars, urlVars>>

-----------------------------------------------------------------------------
(***************************************************************************)
(* initializeFirebaseApp                                                   *)
(***************************************************************************)

\* How many times initializeFirebaseApp is called in one run of the model.
MaxInitCalls == 3

DefaultAppName == "[DEFAULT]"

\* firebase/app getApp(): the registered app named [DEFAULT].
getApp(reg) == CHOOSE a \in {reg[i] : i \in 1..Len(reg)} : a.name = DefaultAppName

\* firebase/app initializeApp(options): registers the default app; when one with
\* the same options exists the SDK hands that one back.
initializeApp(reg, options) ==
    IF \E i \in 1..Len(reg) : reg[i].name = DefaultAppName /\ reg[i].options = options
    THEN [apps |-> reg, app |-> getApp(reg)]
    ELSE LET a == [name |-> DefaultAppName, options |-> options, id |-> Len(reg) + 1]
         IN  [apps |-> Append(reg, a), app |-> a]

\* A plausible slip: the getApps() guard is missing.
initializeFirebaseApp_NoGuard(reg, cfg) ==
    LET r == initializeApp(reg, cfg) IN
    [apps |-> r.apps, app |-> r.app, inits |-> <<Len(reg)>>]

\* initializeFirebaseApp(): the registry afterwards, the app returned, and the
\* registry size seen by each initializeApp invocation it made.
initializeFirebaseApp(reg, cfg) ==
    IF Len(reg) # 0
    THEN [apps |-> reg, app |-> getApp(reg), inits |-> <<>>]
    ELSE LET r == initializeApp(reg, cfg) IN
         [apps |-> r.apps, app |-> r.app, inits |-> <<Len(reg)>>]

\* Some module calls initializeFirebaseApp(); it can only do so when the config
\* module it imports has loaded.
CallInitializeFirebaseApp ==
    /\ configModule = "loaded"
    /\ Len(returned) < MaxInitCalls
    /\ LET r == initializeFirebaseApp(apps, firebaseConfig) IN
        /\ apps' = r.apps
        /\ returned' = Append(returned, r.app)
        /\ initLog' = initLog \o r.inits
    /\ UNCHANGED <<env, configModule, firebaseConfig, configError, serverVars, urlVars>>

-----------------------------------------------------------------------------
(***************************************************************************)
(* JavaScript strings as sequences of characters.  The alphabet of the     *)
(* model is ASCII letters and digits, space and  . - : / \ @ ? # [ ] ; , = *)
(* + and parentheses; tab, newline, '%' and non-ASCII characters are not   *)
(* part of it.                                                             *)
(***************************************************************************)

\* const v = e; F(v) -- e is evaluated once and F sees its value.
With(e, F(_)) == CHOOSE r \in {F(v) : v \in {e}} : TRUE

LowerLetters == <<"a","b","c","d","e","f","g","h","i","j","k","l","m","n","o","p","q","r","s","t","u","v","w","x","y","z">>
UpperLetters == <<"A","B","C","D","E","F","G","H","I","J","K","L","M","N","O","P","Q","R","S","T","U","V","W","X","Y","Z">>
DigitChars == <<"0","1","2","3","4","5","6","7","8","9">>
HexDigitChars == <<"0","1","2","3","4","5","6","7","8","9","a","b","c","d","e","f">>

Range(s) == {s[i] : i \in 1..Len(s)}
IndexOf(s, c) == CHOOSE i \in 1..Len(s) : s[i] = c

UpperSet == Range(UpperLetters)
AlphaSet == Range(LowerLetters) \cup UpperSet
DigitSet == Range(DigitChars)
HexDigitValue == [c \in Range(HexDigitChars) |-> IndexOf(HexDigitChars, c) - 1]
LowerOf == [c \in UpperSet |-> LowerLetters[IndexOf(UpperLetters, c)]]

IsAlpha(c) == c \in AlphaSet
IsDigit(c) == c \in DigitSet
LowerChar(c) == IF c \in UpperSet THEN LowerOf[c] ELSE c

\* String.prototype.toLowerCase on the alphabet.
toLowerCase(s) == [i \in 1..Len(s) |-> LowerChar(s[i])]

\* String.prototype.startsWith / endsWith
startsWith(s, p) == Len(s) >= Len(p) /\ SubSeq(s, 1, Len(p)) = p
endsWith(s, p) == Len(s) >= Len(p) /\ SubSeq(s, Len(s) - Len(p) + 1, Len(s)) = p

From(s, i) == SubSeq(s, i, Len(s))

Min(S) == CHOOSE i \in S : \A j \in S : i <= j
Max(S) == CHOOSE i \in S : \A j \in S : i >= j

\* Index of the first character of s that is in set, Len(s)+1 when there is none.
FirstIndex(s, set) ==
    With({i \in 1..Len(s) : s[i] \in set},
         LAMBDA hits : IF hits = {} THEN Len(s) + 1 ELSE Min(hits))

\* Index of the last character of s that is in set, 0 when there is none.
LastIndex(s, set) ==
    With({i \in 1..Len(s) : s[i] \in set},
         LAMBDA hits : IF hits = {} THEN 0 ELSE Max(hits))

\* s.split('.')
RECURSIVE SplitDots(_)
SplitDots(s) ==
    With(FirstIndex(s, {"."}), LAMBDA i :
        IF i > Len(s) THEN <<s>>
        ELSE <<SubSeq(s, 1, i - 1)>> \o With(From(s, i + 1), LAMBDA t : SplitDots(t)))

-----------------------------------------------------------------------------
(***************************************************************************)
(* new URL(url)  (src/lib/server-auth.ts:51): the WHATWG URL parser, as    *)
(* far as it decides whether parsing fails and what .hostname is.          *)
(***************************************************************************)

SpecialSchemes ==
    {<<"h","t","t","p">>, <<"h","t","t","p","s">>, <<"f","t","p">>,
     <<"w","s">>, <<"w","s","s">>, <<"f","i","l","e">>}
FileScheme == <<"f","i","l","e">>
Localhost == <<"l","o","c","a","l","h","o","s","t">>

\* The forbidden host code points that are in the alphabet.
ForbiddenHostChars == {" ", "#", "/", ":", "?", "@", "[", "\\", "]"}

Failure == [ok |-> FALSE, protocol |-> <<>>, hostname |-> <<>>]
Parsed(protocol, hostname) == [ok |-> TRUE, protocol |-> protocol, hostname |-> hostname]
HostFailure == [ok |-> FALSE, host |-> <<>>]
HostOk(h) == [ok |-> TRUE, host |-> h]

\* ---- IPv4 ----
\* A 32-bit value as two 16-bit halves (hi, lo); over is set past 2^32 - 1.
NumFailure == [ok |-> FALSE, hi |-> 0, lo |-> 0, over |-> FALSE]
NumZero == [ok |-> TRUE, hi |-> 0, lo |-> 0, over |-> FALSE]

\* One digit d appended to the value acc in the given radix.
AppendDigit(acc, radix, d) ==
    With(acc.lo * radix + d, LAMBDA lo2 :
    With(acc.hi * radix + (lo2 \div 65536), LAMBDA hi2 :
        [ok |-> TRUE, hi |-> hi2 % 65536, lo |-> lo2 % 65536,
         over |-> acc.over \/ hi2 >= 65536]))

\* The value of the first n digits of ds.
RECURSIVE AccumulateDigits(_, _, _)
AccumulateDigits(ds, radix, n) ==
    IF n = 0 THEN NumZero
    ELSE With(AccumulateDigits(ds, radix, n - 1),
              LAMBDA acc : AppendDigit(acc, radix, HexDigitValue[ds[n]]))

\* The digits ds are all digits of the radix.
DigitsOf(ds, radix) ==
    \A i \in 1..Len(ds) : ds[i] \in DOMAIN HexDigitValue /\ HexDigitValue[ds[i]] < radix

\* The IPv4 number parser: decimal, 0x hexadecimal, leading-0 octal.
IPv4NumberParse(part) ==
    IF part = <<>> THEN NumFailure
    ELSE IF Len(part) >= 2 /\ part[1] = "0" /\ part[2] = "x"
    THEN With(From(part, 3), LAMBDA ds :
            IF DigitsOf(ds, 16) THEN AccumulateDigits(ds, 16, Len(ds)) ELSE NumFailure)
    ELSE IF Len(part) >= 2 /\ part[1] = "0"
    THEN With(From(part, 2), LAMBDA ds :
            IF DigitsOf(ds, 8) THEN AccumulateDigits(ds, 8, Len(ds)) ELSE NumFailure)
    ELSE IF DigitsOf(part, 10) THEN AccumulateDigits(part, 10, Len(part)) ELSE NumFailure

\* The parts of a domain with one trailing empty part dropped.
IPv4Parts(domain) ==
    With(SplitDots(domain), LAMBDA ps :
        IF Len(ps) > 1 /\ ps[Len(ps)] = <<>> THEN SubSeq(ps, 1, Len(ps) - 1) ELSE ps)

\* The ends-in-a-number checker.
EndsInNumber(domain) ==
    With(IPv4Parts(domain), LAMBDA ps :
    With(ps[Len(ps)], LAMBDA last :
        /\ last # <<>>
        /\ \/ \A i \in 1..Len(last) : IsDigit(last[i])
           \/ IPv4NumberParse(last).ok))

RECURSIVE NatToString(_)
NatToString(n) ==
    IF n < 10 THEN <<DigitChars[n + 1]>>
    ELSE NatToString(n \div 10) \o <<DigitChars[(n % 10) + 1]>>

\* The IPv4 serializer.
IPv4Serialize(octets) ==
    NatToString(octets[1]) \o <<".">> \o NatToString(octets[2]) \o <<".">>
    \o NatToString(octets[3]) \o <<".">> \o NatToString(octets[4])

\* The last of n numbers fills the remaining 5 - n octets.
LastFits(last, n) ==
    /\ ~last.over
    /\ CASE n = 1 -> TRUE
         [] n = 2 -> last.hi < 256
         [] n = 3 -> last.hi = 0
         [] OTHER -> last.hi = 0 /\ last.lo < 256

\* The IPv4 parser followed by the IPv4 serializer.
IPv4Parse(domain) ==
    With(IPv4Parts(domain), LAMBDA ps :
    With(Len(ps), LAMBDA n :
        IF n > 4 THEN HostFailure
        ELSE With([i \in 1..n |-> IPv4NumberParse(ps[i])], LAMBDA nums :
             With(nums[n], LAMBDA last :
                IF \E i \in 1..n : ~nums[i].ok THEN HostFailure
                ELSE IF \E i \in 1..(n - 1) :
                            nums[i].over \/ nums[i].hi # 0 \/ nums[i].lo > 255
                THEN HostFailure
                ELSE IF ~LastFits(last, n) THEN HostFailure
                ELSE HostOk(IPv4Serialize(
                        [i \in 1..4 |->
                            IF i < n THEN nums[i].lo
                            ELSE <<last.hi \div 256, last.hi % 256,
                                   last.lo \div 256, last.lo % 256>>[i]]))))))

\* ---- IPv6 ----
\* The only bracketed literals of the input family are the loopback in its
\* compressed and its full form; both serialize to [::1].
IPv6Loopbacks ==
    {<<":",":","1">>, <<"0",":","0",":","0",":","0",":","0",":","0",":","0",":","1">>}

IPv6Parse(inner) ==
    IF inner \in IPv6Loopbacks THEN HostOk(<<"[",":",":","1","]">>) ELSE HostFailure

\* ---- the host parser ----
HostParse(input, isOpaque) ==
    IF input # <<>> /\ input[1] = "["
    THEN IF input[Len(input)] # "]" THEN HostFailure
         ELSE IPv6Parse(SubSeq(input, 2, Len(input) - 1))
    ELSE IF isOpaque
    THEN IF \E i \in 1..Len(input) : input[i] \in ForbiddenHostChars
         THEN HostFailure ELSE HostOk(input)
    ELSE With(toLowerCase(input), LAMBDA domain :
         IF domain = <<>> THEN HostFailure
         ELSE IF \E i \in 1..Len(domain) : domain[i] \in ForbiddenHostChars THEN HostFailure
         ELSE IF EndsInNumber(domain) THEN IPv4Parse(domain)
         ELSE HostOk(domain))

\* ---- the URL parser ----
\* Leading and trailing spaces are stripped before parsing.
Trim(s) ==
    With({i \in 1..Len(s) : s[i] # " "}, LAMBDA keep :
        IF keep = {} THEN <<>> ELSE SubSeq(s, Min(keep), Max(keep)))

\* Skip every leading slash (and backslash): the special authority slashes
\* and special authority ignore slashes states.
SkipSlashes(s) ==
    With({i \in 1..Len(s) : s[i] \notin {"/", "\\"}}, LAMBDA keep :
        IF keep = {} THEN <<>> ELSE From(s, Min(keep)))

\* hostport[i] lies inside [...]: the nearest bracket before it is an opening one.
InsideBrackets(hostport, i) ==
    With(LastIndex(SubSeq(hostport, 1, i - 1), {"[", "]"}), LAMBDA j :
        j > 0 /\ hostport[j] = "[")

\* Index of the first ':' of hostport that is outside [...], Len+1 if none.
PortColon(hostport) ==
    With({i \in 1..Len(hostport) : hostport[i] = ":" /\ ~InsideBrackets(hostport, i)},
         LAMBDA hits : IF hits = {} THEN Len(hostport) + 1 ELSE Min(hits))

\* The port state: digits only, at most 65535.
PortOk(port) ==
    /\ \A i \in 1..Len(port) : IsDigit(port[i])
    /\ With(AccumulateDigits(port, 10, Len(port)), LAMBDA n : ~n.over /\ n.hi = 0)

\* The host and port states on the authority with its credentials removed.
ParseHostPort(protocol, hostport, special) ==
    With(PortColon(hostport), LAMBDA colon :
    With(SubSeq(hostport, 1, colon - 1), LAMBDA hostbuf :
        IF colon <= Len(hostport) /\ hostbuf = <<>> THEN Failure
        ELSE IF special /\ hostbuf = <<>> THEN Failure
        ELSE With(HostParse(hostbuf, ~special), LAMBDA host :
            IF ~host.ok THEN Failure
            ELSE IF ~PortOk(From(hostport, colon + 1)) THEN Failure
            ELSE Parsed(protocol, host.host))))

\* The authority state on what follows the slashes: up to the first / ? #
\* (and \ in a special URL); what precedes the last @ is credentials.
ParseAuthority(protocol, rest, special) ==
    With(FirstIndex(rest, IF special THEN {"/", "?", "#", "\\"} ELSE {"/", "?", "#"}),
         LAMBDA stop :
    With(SubSeq(rest, 1, stop - 1), LAMBDA auth :
    With(LastIndex(auth, {"@"}), LAMBDA at :
    With(From(auth, at + 1), LAMBDA hostport :
        IF at > 0 /\ hostport = <<>> THEN Failure
        ELSE ParseHostPort(protocol, hostport, special)))))

\* The file, file slash and file host states (there is no base URL).
ParseFile(protocol, rest) ==
    IF Len(rest) >= 2 /\ rest[1] \in {"/", "\\"} /\ rest[2] \in {"/", "\\"}
    THEN With(From(rest, 3), LAMBDA after :
         With(SubSeq(after, 1, FirstIndex(after, {"/", "\\", "?", "#"}) - 1), LAMBDA buf :
            IF buf = <<>> \/ (Len(buf) = 2 /\ IsAlpha(buf[1]) /\ buf[2] = ":")
            THEN Parsed(protocol, <<>>)
            ELSE With(HostParse(buf, FALSE), LAMBDA host :
                IF ~host.ok THEN Failure
                ELSE IF host.host = Localhost THEN Parsed(protocol, <<>>)
                ELSE Parsed(protocol, host.host))))
    ELSE Parsed(protocol, <<>>)

\* The scheme start and scheme states: s[1..colon-1] is a scheme.
SchemeOk(s, colon) ==
    /\ colon <= Len(s)
    /\ colon > 1
    /\ IsAlpha(s[1])
    /\ \A i \in 1..(colon - 1) : IsAlpha(s[i]) \/ IsDigit(s[i]) \/ s[i] \in {"+", "-", "."}

\* What follows "scheme:".
ParseAfterScheme(scheme, rest) ==
    IF scheme = FileScheme THEN ParseFile(scheme \o <<":">>, rest)
    ELSE IF scheme \in SpecialSchemes
    THEN With(SkipSlashes(rest), LAMBDA r : ParseAuthority(scheme \o <<":">>, r, TRUE))
    ELSE IF Len(rest) >= 2 /\ rest[1] = "/" /\ rest[2] = "/"
    THEN With(From(rest, 3), LAMBDA r : ParseAuthority(scheme \o <<":">>, r, FALSE))
    ELSE Parsed(scheme \o <<":">>, <<>>)

\* new URL(input) without a base: Failure stands for the TypeError it throws.
ParseURL(input) ==
    With(Trim(input), LAMBDA s :
    With(FirstIndex(s, {":"}), LAMBDA colon :
        IF ~SchemeOk(s, colon) THEN Failure
        ELSE With(toLowerCase(SubSeq(s, 1, colon - 1)), LAMBDA scheme :
             With(From(s, colon + 1), LAMBDA rest : ParseAfterScheme(scheme, rest)))))

-----------------------------------------------------------------------------
(***************************************************************************)
(* isAllowedUrl  (src/lib/server-auth.ts:22-59)                            *)
(***************************************************************************)

\* Lines 22-30.
ALLOWED_HOSTS ==
    <<<<"f","i","r","e","b","a","s","e","s","t","o","r","a","g","e",".","g","o","o","g","l","e","a","p","i","s",".","c","o","m">>,
      <<"s","t","o","r","a","g","e",".","g","o","o","g","l","e","a","p","i","s",".","c","o","m">>,
      <<".","r","2",".","d","e","v">>,
      <<".","f","a","l",".","m","e","d","i","a">>,
      <<".","f","a","l",".","a","i">>,
      <<".","r","e","p","l","i","c","a","t","e",".","d","e","l","i","v","e","r","y">>,
      <<".","r","e","p","l","i","c","a","t","e",".","c","o","m">>>>

\* Lines 32-41.  Every pattern is ^https?:\/\/ followed by a literal (for the
\* 172 pattern one of sixteen literals); only the localhost pattern has the i
\* flag.  None has the g or y flag, so test() keeps no state.
HttpPrefixes == {<<"h","t","t","p",":","/","/">>, <<"h","t","t","p","s",":","/","/">>}
BLOCKED_PATTERNS ==
    <<[ignoreCase |-> TRUE,  bodies |-> {<<"l","o","c","a","l","h","o","s","t">>}],
      [ignoreCase |-> FALSE, bodies |-> {<<"1","2","7",".">>}],
      [ignoreCase |-> FALSE, bodies |-> {<<"1","0",".">>}],
      [ignoreCase |-> FALSE,
       bodies |-> {<<"1","7","2",".">> \o NatToString(k) \o <<".">> : k \in 16..31}],
      [ignoreCase |-> FALSE, bodies |-> {<<"1","9","2",".","1","6","8",".">>}],
      [ignoreCase |-> FALSE, bodies |-> {<<"1","6","9",".","2","5","4",".">>}],
      [ignoreCase |-> FALSE, bodies |-> {<<"0",".">>}],
      [ignoreCase |-> FALSE, bodies |-> {<<"[",":",":","1","]">>}]>>

\* Every RegExp object is created with lastIndex 0.
NoLastIndex == [k \in 1..Len(BLOCKED_PATTERNS) |-> 0]

\* RegExp.prototype.test for one of the patterns above.
RegExpTest(p, s) ==
    With(IF p.ignoreCase THEN toLowerCase(s) ELSE s, LAMBDA subject :
        \E pre \in HttpPrefixes : \E b \in p.bodies : startsWith(subject, pre \o b))

\* Line 52: BLOCKED_PATTERNS.some(p => p.test(url))
urlBlocked(u) == \E k \in 1..Len(BLOCKED_PATTERNS) : RegExpTest(BLOCKED_PATTERNS[k], u)

\* The patterns whose RegExp object has the g or the y flag, the flags under
\* which test() reads and writes lastIndex.  Lines 33-40: none.
StatefulPatterns_GlobalFlag == 1..Len(BLOCKED_PATTERNS)

StatefulPatterns == {}

\* The index just after the match of pattern p at the start of s.
RegExpMatchEnd(p, s) ==
    With(IF p.ignoreCase THEN toLowerCase(s) ELSE s, LAMBDA subject :
        Max({Len(pre \o b) : pre \in HttpPrefixes, b \in p.bodies} \cap
            {n \in 0..Len(subject) :
                \E pre \in HttpPrefixes : \E b \in p.bodies :
                    Len(pre \o b) = n /\ startsWith(subject, pre \o b)}))

\* BLOCKED_PATTERNS[k].test(s) when the object's lastIndex is li: the result
\* and the lastIndex it leaves.  Without g or y lastIndex is neither read nor
\* written; with it, a pattern anchored by ^ matches only from index 0.
RegExpTestFrom(k, s, li) ==
    IF k \notin StatefulPatterns
    THEN [matched |-> RegExpTest(BLOCKED_PATTERNS[k], s), lastIndex |-> li]
    ELSE IF li = 0 /\ RegExpTest(BLOCKED_PATTERNS[k], s)
    THEN [matched |-> TRUE, lastIndex |-> RegExpMatchEnd(BLOCKED_PATTERNS[k], s)]
    ELSE [matched |-> FALSE, lastIndex |-> 0]

\* Line 52 on the RegExp objects as they are: some() tests the patterns in
\* order and stops at the first that matches.
someBlocked(u, li) ==
    With({k \in 1..Len(BLOCKED_PATTERNS) : RegExpTestFrom(k, u, li[k]).matched}, LAMBDA hits :
    With(IF hits = {} THEN Len(BLOCKED_PATTERNS) ELSE Min(hits), LAMBDA last :
        [blocked |-> hits # {},
         lastIndex |-> [k \in 1..Len(BLOCKED_PATTERNS) |->
                          IF k <= last THEN RegExpTestFrom(k, u, li[k]).lastIndex
                          ELSE li[k]]]))

\* A plausible slip: includes() where endsWith() is meant.
hostAllowed_Includes(hostname) ==
    \E k \in 1..Len(ALLOWED_HOSTS) :
        LET h == ALLOWED_HOSTS[k] IN
        IF h[1] = "."
        THEN \E i \in 1..Len(hostname) : startsWith(From(hostname, i), h)
        ELSE hostname = h

\* A plausible slip: every entry compared with ===.
hostAllowed_ExactOnly(hostname) ==
    \E k \in 1..Len(ALLOWED_HOSTS) : hostname = ALLOWED_HOSTS[k]

\* A plausible slip: a dot entry compared without its dot.
hostAllowed_SuffixNoDot(hostname) ==
    \E k \in 1..Len(ALLOWED_HOSTS) :
        LET h == ALLOWED_HOSTS[k] IN
        IF h[1] = "." THEN endsWith(hostname, From(h, 2)) ELSE hostname = h

\* Lines 53-55: ALLOWED_HOSTS.some(h => h.startsWith('.') ? ... : ...)
hostAllowed(hostname) ==
    \E k \in 1..Len(ALLOWED_HOSTS) :
        LET h == ALLOWED_HOSTS[k] IN
        IF h[1] = "." THEN endsWith(hostname, h) ELSE hostname = h

DataPrefix == <<"d","a","t","a",":">>

\* The outcome of a call: what it returned or that it threw, and which steps ran.
UrlReturn(v, parsed, blocked, allowed) ==
    [kind |-> "return", value |-> v, parsedUrl |-> parsed,
     testedBlocked |-> blocked, testedAllowed |-> allowed]
UrlThrow == [kind |-> "throw", value |-> FALSE, parsedUrl |-> TRUE,
             testedBlocked |-> FALSE, testedAllowed |-> FALSE]
NoRet == [kind |-> "none", value |-> FALSE, parsedUrl |-> FALSE,
          testedBlocked |-> FALSE, testedAllowed |-> FALSE]

\* A plausible slip: the allowlist is matched against the url text, as the
\* blocked patterns are, instead of parsed.hostname.
isAllowedUrl_UrlText(u) ==
    IF startsWith(u, DataPrefix) THEN UrlReturn(TRUE, FALSE, FALSE, FALSE)
    ELSE IF ~ParseURL(u).ok THEN UrlReturn(FALSE, TRUE, FALSE, FALSE)
    ELSE IF urlBlocked(u) THEN UrlReturn(FALSE, TRUE, TRUE, FALSE)
    ELSE UrlReturn(hostAllowed_Includes(u), TRUE, TRUE, TRUE)

\* A plausible slip: the data: shortcut is missing.
isAllowedUrl_NoDataShortcut(u) ==
    With(ParseURL(u), LAMBDA parsed :
        IF ~parsed.ok THEN UrlReturn(FALSE, TRUE, FALSE, FALSE)
        ELSE IF urlBlocked(u) THEN UrlReturn(FALSE, TRUE, TRUE, FALSE)
        ELSE UrlReturn(hostAllowed(parsed.hostname), TRUE, TRUE, TRUE))

\* A plausible slip: new URL() outside any try block.
isAllowedUrl_NoCatch(u) ==
    IF startsWith(u, DataPrefix) THEN UrlReturn(TRUE, FALSE, FALSE, FALSE)
    ELSE With(ParseURL(u), LAMBDA parsed :
            IF ~parsed.ok THEN UrlThrow
            ELSE IF urlBlocked(u) THEN UrlReturn(FALSE, TRUE, TRUE, FALSE)
            ELSE UrlReturn(hostAllowed(parsed.hostname), TRUE, TRUE, TRUE))

\* A plausible slip: the allowlist is consulted before the blocked patterns.
isAllowedUrl_AllowlistFirst(u) ==
    IF startsWith(u, DataPrefix) THEN UrlReturn(TRUE, FALSE, FALSE, FALSE)
    ELSE With(ParseURL(u), LAMBDA parsed :
            IF ~parsed.ok THEN UrlReturn(FALSE, TRUE, FALSE, FALSE)
            ELSE IF hostAllowed(parsed.hostname) THEN UrlReturn(TRUE, TRUE, FALSE, TRUE)
            ELSE UrlReturn(FALSE, TRUE, TRUE, TRUE))

\* Lines 48-59.
isAllowedUrl(u) ==
    IF startsWith(u, DataPrefix) THEN UrlReturn(TRUE, FALSE, FALSE, FALSE)
    ELSE With(ParseURL(u), LAMBDA parsed :
            IF ~parsed.ok THEN UrlReturn(FALSE, TRUE, FALSE, FALSE)
            ELSE IF urlBlocked(u) THEN UrlReturn(FALSE, TRUE, TRUE, FALSE)
            ELSE UrlReturn(hostAllowed(parsed.hostname), TRUE, TRUE, TRUE))

\* Lines 48-59 on the module's RegExp objects: the outcome of a call made when
\* their lastIndex values are li, and the values the call leaves.
isAllowedUrlFrom(u, li) ==
    IF startsWith(u, DataPrefix) \/ ~ParseURL(u).ok
    THEN [ret |-> isAllowedUrl(u), lastIndex |-> li]
    ELSE With(someBlocked(u, li), LAMBDA scan :
            [ret |-> IF scan.blocked THEN UrlReturn(FALSE, TRUE, TRUE, FALSE)
                     ELSE UrlReturn(hostAllowed(ParseURL(u).hostname), TRUE, TRUE, TRUE),
             lastIndex |-> scan.lastIndex])

MaxCalls == 3

\* The strings the repeated calls are made with.
RepeatedUrls ==
    {(* http://10.fal.ai/logo.png *)
     <<"h","t","t","p",":","/","/","1","0",".","f","a","l",".","a","i","/","l","o","g","o",".","p","n","g">>,
     (* https://localhost.r2.dev/a *)
     <<"h","t","t","p","s",":","/","/","l","o","c","a","l","h","o","s","t",".","r","2",".","d","e","v","/","a">>,
     (* https://x.fal.ai/logo.png *)
     <<"h","t","t","p","s",":","/","/","x",".","f","a","l",".","a","i","/","l","o","g","o",".","p","n","g">>,
     (* http://localhost:3000/ *)
     <<"h","t","t","p",":","/","/","l","o","c","a","l","h","o","s","t",":","3","0","0","0","/">>,
     (* https://evil.com/ *)
     <<"h","t","t","p","s",":","/","/","e","v","i","l",".","c","o","m","/">>,
     (* data:image/png;base64,AAAA *)
     <<"d","a","t","a",":","i","m","a","g","e","/","p","n","g",";","b","a","s","e","6","4",",","A","A","A","A">>,
     (* not a url *)
     <<"n","o","t"," ","a"," ","u","r","l">>}

\* One more call of isAllowedUrl in the same server process.
CallIsAllowedUrlAgain ==
    /\ urlPc \in {"ready", "done"}
    /\ Len(calls) < MaxCalls
    /\ \E u \in RepeatedUrls :
        LET r == isAllowedUrlFrom(u, lastIndex) IN
            /\ url' = u
            /\ ret' = r.ret
            /\ lastIndex' = r.lastIndex
            /\ calls' = Append(calls, [url |-> u, ret |-> r.ret])
    /\ urlPc' = "done"
    /\ UNCHANGED <<parts, serverVars, firebaseVars>>

-----------------------------------------------------------------------------
(***************************************************************************)
(* The strings isAllowedUrl is applied to: every string                    *)
(*     scheme sep userinfo host port tail                                  *)
(* over the sets below, and the literal strings of the test-suite.         *)
(***************************************************************************)

\* How many prefixes are put in front of a base host.
MaxHostPrefixes == 1

Schemes ==
    {(* http *)
     <<"h","t","t","p">>,
     (* https *)
     <<"h","t","t","p","s">>,
     (* HTTP *)
     <<"H","T","T","P">>,
     (* ftp *)
     <<"f","t","p">>,
     (* file *)
     <<"f","i","l","e">>,
     (* javascript *)
     <<"j","a","v","a","s","c","r","i","p","t">>,
     (* data *)
     <<"d","a","t","a">>}

Seps ==
    {(* :// *)
     <<":","/","/">>,
     (* : *)
     <<":">>}

UserInfos ==
    {(* empty *)
     <<>>,
     (* x.fal.ai@ *)
     <<"x",".","f","a","l",".","a","i","@">>}

HostPrefixes ==
    {(* x. *)
     <<"x",".">>,
     (* 10. *)
     <<"1","0",".">>,
     (* localhost. *)
     <<"l","o","c","a","l","h","o","s","t",".">>,
     (* evil *)
     <<"e","v","i","l">>}

BaseHosts ==
    {(* firebasestorage.googleapis.com *)
     <<"f","i","r","e","b","a","s","e","s","t","o","r","a","g","e",".","g","o","o","g","l","e","a","p","i","s",".","c","o","m">>,
     (* storage.googleapis.com *)
     <<"s","t","o","r","a","g","e",".","g","o","o","g","l","e","a","p","i","s",".","c","o","m">>,
     (* r2.dev *)
     <<"r","2",".","d","e","v">>,
     (* fal.media *)
     <<"f","a","l",".","m","e","d","i","a">>,
     (* fal.ai *)
     <<"f","a","l",".","a","i">>,
     (* replicate.delivery *)
     <<"r","e","p","l","i","c","a","t","e",".","d","e","l","i","v","e","r","y">>,
     (* replicate.com *)
     <<"r","e","p","l","i","c","a","t","e",".","c","o","m">>,
     (* Storage.Fal.AI *)
     <<"S","t","o","r","a","g","e",".","F","a","l",".","A","I">>,
     (* evil.com *)
     <<"e","v","i","l",".","c","o","m">>,
     (* firebasestorage.googleapis.com.evil.com *)
     <<"f","i","r","e","b","a","s","e","s","t","o","r","a","g","e",".","g","o","o","g","l","e","a","p","i","s",".","c","o","m",".","e","v","i","l",".","c","o","m">>,
     (* cdn.fal.ai.evil.com *)
     <<"c","d","n",".","f","a","l",".","a","i",".","e","v","i","l",".","c","o","m">>,
     (* localhost *)
     <<"l","o","c","a","l","h","o","s","t">>,
     (* LOCALHOST *)
     <<"L","O","C","A","L","H","O","S","T">>,
     (* 127.0.0.1 *)
     <<"1","2","7",".","0",".","0",".","1">>,
     (* 127.255.0.1 *)
     <<"1","2","7",".","2","5","5",".","0",".","1">>,
     (* 10.0.0.1 *)
     <<"1","0",".","0",".","0",".","1">>,
     (* 172.16.0.1 *)
     <<"1","7","2",".","1","6",".","0",".","1">>,
     (* 172.31.255.255 *)
     <<"1","7","2",".","3","1",".","2","5","5",".","2","5","5">>,
     (* 172.32.0.1 *)
     <<"1","7","2",".","3","2",".","0",".","1">>,
     (* 192.168.1.1 *)
     <<"1","9","2",".","1","6","8",".","1",".","1">>,
     (* 169.254.169.254 *)
     <<"1","6","9",".","2","5","4",".","1","6","9",".","2","5","4">>,
     (* 0.0.0.0 *)
     <<"0",".","0",".","0",".","0">>,
     (* [::1] *)
     <<"[",":",":","1","]">>,
     (* 2130706433 *)
     <<"2","1","3","0","7","0","6","4","3","3">>,
     (* 0x7f.1 *)
     <<"0","x","7","f",".","1">>,
     (* 1.2.3.4 *)
     <<"1",".","2",".","3",".","4">>,
     (* empty *)
     <<>>}

Ports ==
    {(* empty *)
     <<>>,
     (* :3000 *)
     <<":","3","0","0","0">>}

Tails ==
    {(* empty *)
     <<>>,
     (* /v0/b/o/logo.png?alt=media *)
     <<"/","v","0","/","b","/","o","/","l","o","g","o",".","p","n","g","?","a","l","t","=","m","e","d","i","a">>,
     (* /x.fal.ai *)
     <<"/","x",".","f","a","l",".","a","i">>,
     (* ?u=storage.googleapis.com *)
     <<"?","u","=","s","t","o","r","a","g","e",".","g","o","o","g","l","e","a","p","i","s",".","c","o","m">>,
     (* #.r2.dev *)
     <<"#",".","r","2",".","d","e","v">>}

\* The test-suite's URLs and further malformed or unusual strings.
LiteralUrls ==
    {(* https://firebasestorage.googleapis.com/v0/b/my-bucket/o/logo.png?alt=media *)
     <<"h","t","t","p","s",":","/","/","f","i","r","e","b","a","s","e","s","t","o","r","a","g","e",".","g","o","o","g","l","e","a","p","i","s",".","c","o","m","/","v","0","/","b","/","m","y","-","b","u","c","k","e","t","/","o","/","l","o","g","o",".","p","n","g","?","a","l","t","=","m","e","d","i","a">>,
     (* https://storage.googleapis.com/my-bucket/logo.png *)
     <<"h","t","t","p","s",":","/","/","s","t","o","r","a","g","e",".","g","o","o","g","l","e","a","p","i","s",".","c","o","m","/","m","y","-","b","u","c","k","e","t","/","l","o","g","o",".","p","n","g">>,
     (* https://pub-abc123.r2.dev/logos/brand-logo.png *)
     <<"h","t","t","p","s",":","/","/","p","u","b","-","a","b","c","1","2","3",".","r","2",".","d","e","v","/","l","o","g","o","s","/","b","r","a","n","d","-","l","o","g","o",".","p","n","g">>,
     (* https://v3.fal.media/files/abc/output.png *)
     <<"h","t","t","p","s",":","/","/","v","3",".","f","a","l",".","m","e","d","i","a","/","f","i","l","e","s","/","a","b","c","/","o","u","t","p","u","t",".","p","n","g">>,
     (* https://storage.fal.ai/outputs/image.png *)
     <<"h","t","t","p","s",":","/","/","s","t","o","r","a","g","e",".","f","a","l",".","a","i","/","o","u","t","p","u","t","s","/","i","m","a","g","e",".","p","n","g">>,
     (* https://pbxt.replicate.delivery/abc123/output.png *)
     <<"h","t","t","p","s",":","/","/","p","b","x","t",".","r","e","p","l","i","c","a","t","e",".","d","e","l","i","v","e","r","y","/","a","b","c","1","2","3","/","o","u","t","p","u","t",".","p","n","g">>,
     (* https://output.replicate.com/abc123/image.png *)
     <<"h","t","t","p","s",":","/","/","o","u","t","p","u","t",".","r","e","p","l","i","c","a","t","e",".","c","o","m","/","a","b","c","1","2","3","/","i","m","a","g","e",".","p","n","g">>,
     (* data:image/png;base64,iVBORw0KGgo= *)
     <<"d","a","t","a",":","i","m","a","g","e","/","p","n","g",";","b","a","s","e","6","4",",","i","V","B","O","R","w","0","K","G","g","o","=">>,
     (* data:image/svg+xml;base64,PHN2ZyB4bWxucz0= *)
     <<"d","a","t","a",":","i","m","a","g","e","/","s","v","g","+","x","m","l",";","b","a","s","e","6","4",",","P","H","N","2","Z","y","B","4","b","W","x","u","c","z","0","=">>,
     (* http://localhost/secret *)
     <<"h","t","t","p",":","/","/","l","o","c","a","l","h","o","s","t","/","s","e","c","r","e","t">>,
     (* http://localhost:3000/api/internal *)
     <<"h","t","t","p",":","/","/","l","o","c","a","l","h","o","s","t",":","3","0","0","0","/","a","p","i","/","i","n","t","e","r","n","a","l">>,
     (* http://169.254.169.254/latest/meta-data/ *)
     <<"h","t","t","p",":","/","/","1","6","9",".","2","5","4",".","1","6","9",".","2","5","4","/","l","a","t","e","s","t","/","m","e","t","a","-","d","a","t","a","/">>,
     (* http://[::1]/secret *)
     <<"h","t","t","p",":","/","/","[",":",":","1","]","/","s","e","c","r","e","t">>,
     (* http://0.0.0.0/ *)
     <<"h","t","t","p",":","/","/","0",".","0",".","0",".","0","/">>,
     (* https://evil.com/steal-data *)
     <<"h","t","t","p","s",":","/","/","e","v","i","l",".","c","o","m","/","s","t","e","a","l","-","d","a","t","a">>,
     (* http://attacker.org/ssrf *)
     <<"h","t","t","p",":","/","/","a","t","t","a","c","k","e","r",".","o","r","g","/","s","s","r","f">>,
     (* https://not-firebasestorage.googleapis.com.evil.com/data *)
     <<"h","t","t","p","s",":","/","/","n","o","t","-","f","i","r","e","b","a","s","e","s","t","o","r","a","g","e",".","g","o","o","g","l","e","a","p","i","s",".","c","o","m",".","e","v","i","l",".","c","o","m","/","d","a","t","a">>,
     (* empty *)
     <<>>,
     (* not-a-url *)
     <<"n","o","t","-","a","-","u","r","l">>,
     (* javascript:alert(1) *)
     <<"j","a","v","a","s","c","r","i","p","t",":","a","l","e","r","t","(","1",")">>,
     (* file:///etc/passwd *)
     <<"f","i","l","e",":","/","/","/","e","t","c","/","p","a","s","s","w","d">>,
     (* data: *)
     <<"d","a","t","a",":">>,
     (* DATA:image/png;base64,iVBORw0KGgo= *)
     <<"D","A","T","A",":","i","m","a","g","e","/","p","n","g",";","b","a","s","e","6","4",",","i","V","B","O","R","w","0","K","G","g","o","=">>,
     (*  data:image/png;base64,iVBORw0KGgo= *)
     <<" ","d","a","t","a",":","i","m","a","g","e","/","p","n","g",";","b","a","s","e","6","4",",","i","V","B","O","R","w","0","K","G","g","o","=">>,
     (*  http://127.0.0.1/admin  *)
     <<" ","h","t","t","p",":","/","/","1","2","7",".","0",".","0",".","1","/","a","d","m","i","n"," ">>,
     (* http://[::1 *)
     <<"h","t","t","p",":","/","/","[",":",":","1">>,
     (* https://x.fal.ai:99999/ *)
     <<"h","t","t","p","s",":","/","/","x",".","f","a","l",".","a","i",":","9","9","9","9","9","/">>,
     (* https://x.fal.ai:80a/ *)
     <<"h","t","t","p","s",":","/","/","x",".","f","a","l",".","a","i",":","8","0","a","/">>,
     (* //x.fal.ai/logo.png *)
     <<"/","/","x",".","f","a","l",".","a","i","/","l","o","g","o",".","p","n","g">>,
     (* x.fal.ai/logo.png *)
     <<"x",".","f","a","l",".","a","i","/","l","o","g","o",".","p","n","g">>,
     (* 1http://x.fal.ai/ *)
     <<"1","h","t","t","p",":","/","/","x",".","f","a","l",".","a","i","/">>,
     (* https://evil.com\@x.fal.ai/ *)
     <<"h","t","t","p","s",":","/","/","e","v","i","l",".","c","o","m","\\","@","x",".","f","a","l",".","a","i","/">>,
     (* https:\\x.fal.ai/logo.png *)
     <<"h","t","t","p","s",":","\\","\\","x",".","f","a","l",".","a","i","/","l","o","g","o",".","p","n","g">>,
     (* https://x.fal.ai./logo.png *)
     <<"h","t","t","p","s",":","/","/","x",".","f","a","l",".","a","i",".","/","l","o","g","o",".","p","n","g">>,
     (* https://1.2.3.4.5/ *)
     <<"h","t","t","p","s",":","/","/","1",".","2",".","3",".","4",".","5","/">>,
     (* https://256.1.1.1/ *)
     <<"h","t","t","p","s",":","/","/","2","5","6",".","1",".","1",".","1","/">>,
     (* https://09.fal.ai.1/ *)
     <<"h","t","t","p","s",":","/","/","0","9",".","f","a","l",".","a","i",".","1","/">>,
     (* file://C:/x.fal.ai *)
     <<"f","i","l","e",":","/","/","C",":","/","x",".","f","a","l",".","a","i">>,
     (* file://localhost/etc/passwd *)
     <<"f","i","l","e",":","/","/","l","o","c","a","l","h","o","s","t","/","e","t","c","/","p","a","s","s","w","d">>,
     (* file:/x.fal.ai *)
     <<"f","i","l","e",":","/","x",".","f","a","l",".","a","i">>,
     (* foo://x fal.ai/ *)
     <<"f","o","o",":","/","/","x"," ","f","a","l",".","a","i","/">>,
     (* https://[0:0:0:0:0:0:0:1]/ *)
     <<"h","t","t","p","s",":","/","/","[","0",":","0",":","0",":","0",":","0",":","0",":","0",":","1","]","/">>,
     (* : *)
     <<":">>,
     (* http: *)
     <<"h","t","t","p",":">>,
     (* https:// *)
     <<"h","t","t","p","s",":","/","/">>,
     (* https://@x.fal.ai/ *)
     <<"h","t","t","p","s",":","/","/","@","x",".","f","a","l",".","a","i","/">>,
     (* https://user:pw@x.fal.ai/ *)
     <<"h","t","t","p","s",":","/","/","u","s","e","r",":","p","w","@","x",".","f","a","l",".","a","i","/">>,
     (* https://:443/ *)
     <<"h","t","t","p","s",":","/","/",":","4","4","3","/">>}

RECURSIVE HostsWith(_)
HostsWith(k) ==
    IF k = 0 THEN BaseHosts
    ELSE HostsWith(k - 1) \cup {p \o h : p \in HostPrefixes, h \in HostsWith(k - 1)}

Hosts == HostsWith(MaxHostPrefixes)

UrlParts ==
    [scheme : Schemes, sep : Seps, userinfo : UserInfos, host : Hosts,
     port : Ports, tail : Tails]
    \cup [scheme : {<<>>}, sep : {<<>>}, userinfo : {<<>>}, host : {<<>>},
          port : {<<>>}, tail : LiteralUrls]

Render(p) == p.scheme \o p.sep \o p.userinfo \o p.host \o p.port \o p.tail

NoParts == [scheme |-> <<>>, sep |-> <<>>, userinfo |-> <<>>, host |-> <<>>,
            port |-> <<>>, tail |-> <<>>]

\* isAllowedUrl(url) is called and returns (or throws).
CallIsAllowedUrl ==
    /\ urlPc = "ready"
    /\ ret' = isAllowedUrl(url)
    /\ urlPc' = "done"
    /\ UNCHANGED <<parts, url, lastIndex, calls, serverVars, firebaseVars>>

-----------------------------------------------------------------------------
(***************************************************************************)
(* Initial states and specifications                                       *)
(***************************************************************************)

IdleServer ==
    /\ entry = "none"
    /\ pc = "idle"
    /\ idToken = ""
    /\ logoUrl = NoLogo
    /\ authPc = "idle"
    /\ authResult = NoAuth
    /\ verifyCalls = <<>>
    /\ decoded = NoDecoded
    /\ extCalls = <<>>
    /\ outcome = None
    /\ falResult = NoFalResult
    /\ aiResult = NoAiResult
    /\ clientPc = "unmounted"
    /\ suggestions = DefaultSuggestions

IdleUrl ==
    /\ parts = NoParts
    /\ url = <<>>
    /\ urlPc = "off"
    /\ ret = NoRet
    /\ lastIndex = NoLastIndex
    /\ calls = <<>>

IdleFirebase ==
    /\ configModule = "unloaded"
    /\ firebaseConfig = None
    /\ configError = ""
    /\ apps = <<>>
    /\ initLog = <<>>
    /\ returned = <<>>

\* ---- Spec: the server handles requests ----
Init ==
    /\ adminAuth \in BOOLEAN
    /\ falKey \in BOOLEAN
    /\ currentUser \in Users
    /\ IdleServer
    /\ IdleUrl
    /\ env = <<>>
    /\ IdleFirebase

Next ==
    \/ InvokeGetAudienceSuggestions
    \/ InvokeVectoriseLogo
    \/ InvokeGenerateAudienceSuggestions
    \/ RequireServerAuthEnter
    \/ VerifyIdTokenSettles
    \/ getAudienceSuggestionsAfterAuth
    \/ vectoriseLogoStart
    \/ FalSubscribeSettles
    \/ FetchSettles
    \/ generateAudienceSuggestionsStart
    \/ AiGenerateSettles
    \/ RequestDone
    \/ AudienceStepClientMount
    \/ AudienceStepClientReceives
    \/ AudienceStepClientUnmount

Spec == Init /\ [][Next]_vars

\* ---- SpecUrl: isAllowedUrl on each string of the family ----
InitUrl ==
    /\ adminAuth = TRUE
    /\ falKey = TRUE
    /\ currentUser = ""
    /\ IdleServer
    /\ parts \in UrlParts
    /\ url = Render(parts)
    /\ urlPc = "ready"
    /\ ret = NoRet
    /\ lastIndex = NoLastIndex
    /\ calls = <<>>
    /\ env = <<>>
    /\ IdleFirebase

NextUrl == CallIsAllowedUrl

SpecUrl == InitUrl /\ [][NextUrl]_vars

\* ---- SpecUrlCalls: isAllowedUrl called again and again in one process ----
InitUrlCalls ==
    /\ adminAuth = TRUE
    /\ falKey = TRUE
    /\ currentUser = ""
    /\ IdleServer
    /\ parts = NoParts
    /\ url = <<>>
    /\ urlPc = "ready"
    /\ ret = NoRet
    /\ lastIndex = NoLastIndex
    /\ calls = <<>>
    /\ env = <<>>
    /\ IdleFirebase

NextUrlCalls == CallIsAllowedUrlAgain

SpecUrlCalls == InitUrlCalls /\ [][NextUrlCalls]_vars

\* ---- SpecFirebase: the config module loads, initializeFirebaseApp is called ----
InitFirebase ==
    /\ adminAuth = TRUE
    /\ falKey = TRUE
    /\ currentUser = ""
    /\ IdleServer
    /\ IdleUrl
    /\ env \in Environments
    /\ IdleFirebase

NextFirebase ==
    \/ LoadConfigModule
    \/ CallInitializeFirebaseApp

SpecFirebase == InitFirebase /\ [][NextFirebase]_vars

-----------------------------------------------------------------------------
(***************************************************************************)
(* Properties                                                              *)
(***************************************************************************)

AiApis == {"fal.subscribe", "ai.generate"}

\* C1: in every execution of a server function that calls a generative AI
\* API, a successful requireServerAuth precedes the external call.
\* Violated: vectoriseLogo and generateAudienceSuggestions are themselves
\* 'use server' exports, take no token and call no requireServerAuth.
C1_AuthPrecedesAiCall ==
    \A i \in 1..Len(extCalls) :
        extCalls[i].api \in AiApis => authResult.kind = "resolved"

\* C2: requireServerAuth resolves only when adminAuth is initialised, the
\* token is non-empty and verifyIdToken accepted exactly that token; the uid
\* is the decoded token's uid; every other settlement is a rejection with one
\* of the three Errors.
C2_ResolvesOnlyVerified ==
    authPc = "settled" =>
        IF adminAuth /\ idToken # "" /\ decoded.ok
        THEN /\ authResult.kind = "resolved"
             /\ verifyCalls = <<idToken>>
             /\ authResult.uid = decoded.uid
             /\ idToken \in DOMAIN UidOf
             /\ authResult.uid = UidOf[idToken]
        ELSE /\ authResult.kind = "rejected"
             /\ authResult.error \in {ErrNotInitialized, ErrAuthRequired, ErrInvalidToken}

\* C2 witness: a call resolved with bob's uid.
C2_Witness ==
    authPc = "settled" /\ authResult.kind = "resolved" /\ authResult.uid = "bob"

\* ---- isAllowedUrl ----
Called == urlPc = "done"
Assembled == parts.scheme # <<>> /\ parts.host # <<>>
IsDataUri == startsWith(url, DataPrefix)

\* The decimal value of a part of a serialized IPv4 address, -1 if it is none.
Octet(part) ==
    IF part # <<>> /\ Len(part) <= 3 /\ DigitsOf(part, 10)
    THEN AccumulateDigits(part, 10, Len(part)).lo ELSE -1

\* h is localhost, the IPv6 loopback, or a dotted IPv4 address in 127/8, 10/8,
\* 172.16/12, 192.168/16, 169.254/16 or 0/8.
InternalHost(h) ==
    \/ h = Localhost
    \/ h = <<"[",":",":","1","]">>
    \/ With(SplitDots(h), LAMBDA ps :
        /\ Len(ps) = 4
        /\ \A i \in 1..4 : Octet(ps[i]) \in 0..255
        /\ With(Octet(ps[1]), LAMBDA a :
           With(Octet(ps[2]), LAMBDA b :
            \/ a \in {127, 10, 0}
            \/ a = 172 /\ b \in 16..31
            \/ a = 192 /\ b = 168
            \/ a = 169 /\ b = 254)))

\* The url names an internal host: it was assembled around one, or the
\* parser finds one.
NamesInternalHost ==
    \/ Assembled /\ parts.sep = <<":","/","/">> /\ InternalHost(toLowerCase(parts.host))
    \/ With(ParseURL(url), LAMBDA parsed : parsed.ok /\ InternalHost(parsed.hostname))

\* C3 (as amended): every URL that does not start with 'data:' and whose host
\* is localhost, 127.x, 10.x, 172.16-31.x, 192.168.x, 169.254.x, 0.x or
\* [::1] is rejected.
C3_InternalHostsBlocked ==
    (Called /\ ~IsDataUri /\ NamesInternalHost) => ret.value = FALSE

\* C3 as stated: every URL with such a host is rejected.
C3_Original ==
    (Called /\ NamesInternalHost) => ret.value = FALSE

\* C3 witness: an internal address behind credentials, which no blocked
\* pattern matches, has been rejected.
C3_Witness ==
    /\ Called
    /\ parts.scheme = <<"h","t","t","p">> /\ parts.sep = <<":","/","/">> /\ parts.userinfo = <<"x",".","f","a","l",".","a","i","@">>
    /\ parts.host = <<"1","6","9",".","2","5","4",".","1","6","9",".","2","5","4">> /\ parts.tail = <<"/","x",".","f","a","l",".","a","i">>
    /\ ~urlBlocked(url)
    /\ ret.value = FALSE

\* The allowlist as the claims state it.
ClaimedExactHosts == {<<"f","i","r","e","b","a","s","e","s","t","o","r","a","g","e",".","g","o","o","g","l","e","a","p","i","s",".","c","o","m">>, <<"s","t","o","r","a","g","e",".","g","o","o","g","l","e","a","p","i","s",".","c","o","m">>}
ClaimedSuffixes == {<<".","r","2",".","d","e","v">>, <<".","f","a","l",".","m","e","d","i","a">>, <<".","f","a","l",".","a","i">>, <<".","r","e","p","l","i","c","a","t","e",".","d","e","l","i","v","e","r","y">>, <<".","r","e","p","l","i","c","a","t","e",".","c","o","m">>}
ClaimedAllowed(h) == h \in ClaimedExactHosts \/ \E sfx \in ClaimedSuffixes : endsWith(h, sfx)

\* C4: a URL that does not start with 'data:' is accepted only if its parsed
\* hostname is on the allowlist; an allowed host name in the credentials,
\* path, query or fragment of a URL with another host never makes it accepted.
C4_OnlyAllowlistedHosts ==
    (Called /\ ~IsDataUri) =>
        /\ ret.value = TRUE =>
            With(ParseURL(url), LAMBDA parsed : parsed.ok /\ ClaimedAllowed(parsed.hostname))
        /\ (Assembled /\ ~ClaimedAllowed(toLowerCase(parts.host))) => ret.value = FALSE

\* C4 witness: evil.com with an allowed name as credentials and in the path.
C4_Witness ==
    /\ Called
    /\ parts.scheme = <<"h","t","t","p","s">> /\ parts.sep = <<":","/","/">> /\ parts.userinfo = <<"x",".","f","a","l",".","a","i","@">>
    /\ parts.host = <<"e","v","i","l",".","c","o","m">> /\ parts.tail = <<"/","x",".","f","a","l",".","a","i">>
    /\ ret.value = FALSE

\* C5 (as amended): a well-formed URL whose hostname is on the allowlist is
\* accepted, whatever its path and query, unless its text matches a blocked
\* pattern.
C5_AllowlistedAccepted ==
    Called =>
        With(ParseURL(url), LAMBDA parsed :
            (parsed.ok /\ ClaimedAllowed(parsed.hostname) /\ ~urlBlocked(url))
                => ret.value = TRUE)

\* C5 as stated: accepted whatever the subdomain labels are.
C5_Original ==
    Called =>
        With(ParseURL(url), LAMBDA parsed :
            (parsed.ok /\ ClaimedAllowed(parsed.hostname)) => ret.value = TRUE)

\* C5 witness: a subdomain of fal.ai with a port, a path and a query has been
\* accepted.
C5_Witness ==
    /\ Called
    /\ parts.scheme = <<"h","t","t","p","s">> /\ parts.sep = <<":","/","/">> /\ parts.host = <<"x",".","f","a","l",".","a","i">>
    /\ parts.port # <<>> /\ parts.tail = <<"/","v","0","/","b","/","o","/","l","o","g","o",".","p","n","g","?","a","l","t","=","m","e","d","i","a">>
    /\ ret.value = TRUE

\* C6: a URL whose scheme is neither http, https nor data is rejected,
\* whatever host it names.  Violated: the scheme is never inspected.
C6_OtherSchemesBlocked ==
    Called =>
        With(ParseURL(url), LAMBDA parsed :
            (parsed.ok /\ parsed.protocol \notin {<<"h","t","t","p",":">>, <<"h","t","t","p","s",":">>, <<"d","a","t","a",":">>})
                => ret.value = FALSE)

\* C7: a string that starts with 'data:' is accepted without being parsed and
\* without the blocked patterns or the allowlist being consulted.
C7_DataUriAccepted ==
    (Called /\ IsDataUri) => ret = UrlReturn(TRUE, FALSE, FALSE, FALSE)

\* C7 witness: a data: string that names an internal host has been accepted.
C7_Witness ==
    Called /\ IsDataUri /\ parts.host = <<"1","6","9",".","2","5","4",".","1","6","9",".","2","5","4">> /\ ret.value = TRUE

\* C8 (as amended): the call never throws and returns a boolean; for the
\* empty string and for every string that does not start with 'data:' and is
\* not a parseable URL it returns false.
C8_Total ==
    Called =>
        /\ ret.kind = "return"
        /\ ret.value \in BOOLEAN
        /\ (~IsDataUri /\ (url = <<>> \/ ~ParseURL(url).ok)) => ret.value = FALSE

\* C8 as stated: every string that is not a parseable URL is rejected.
C8_Original ==
    Called =>
        /\ ret.kind = "return"
        /\ ret.value \in BOOLEAN
        /\ (url = <<>> \/ ~ParseURL(url).ok) => ret.value = FALSE

\* C8 witness: a non-empty string that new URL() refuses has been rejected.
C8_Witness ==
    Called /\ url # <<>> /\ ~ParseURL(url).ok /\ ret.kind = "return" /\ ret.value = FALSE

\* ---- firebase ----
\* C9: at most one app is ever initialised, initializeApp runs only when no
\* app exists, and every call returns the same default app.
C9_Idempotent ==
    /\ Len(apps) <= 1
    /\ Len(initLog) <= 1
    /\ \A i \in 1..Len(initLog) : initLog[i] = 0
    /\ \A i \in 1..Len(returned) :
        /\ returned[i] = returned[1]
        /\ returned[i].name = DefaultAppName
        /\ returned[i] = apps[1]

\* C9 witness: initializeFirebaseApp has been called three times.
C9_Witness == Len(returned) >= 3 /\ Len(apps) = 1

RequiredEnv ==
    <<"NEXT_PUBLIC_FIREBASE_PROJECT_ID", "NEXT_PUBLIC_FIREBASE_APP_ID",
      "NEXT_PUBLIC_FIREBASE_API_KEY">>
MissingEnv == {n \in Range(RequiredEnv) : n \notin DOMAIN env \/ env[n] = ""}
OptionalEnvValue(n) == IF n \in DOMAIN env THEN env[n] ELSE ""

\* C10: with a required variable unset or empty the config module throws an
\* Error naming a missing variable and exports no config; otherwise it
\* exports the environment's values, the optional ones defaulting to ''.
C10_FailsLoudly ==
    configModule # "unloaded" =>
        IF MissingEnv # {}
        THEN /\ configModule = "failed"
             /\ firebaseConfig.kind = "none"
             /\ \E n \in MissingEnv :
                    configError = "Missing required environment variable: " \o n
                                  \o ". Check your .env file."
        ELSE /\ configModule = "loaded"
             /\ firebaseConfig.kind = "config"
             /\ firebaseConfig.projectId = env["NEXT_PUBLIC_FIREBASE_PROJECT_ID"]
             /\ firebaseConfig.appId = env["NEXT_PUBLIC_FIREBASE_APP_ID"]
             /\ firebaseConfig.apiKey = env["NEXT_PUBLIC_FIREBASE_API_KEY"]
             /\ firebaseConfig.storageBucket =
                    OptionalEnvValue("NEXT_PUBLIC_FIREBASE_STORAGE_BUCKET")
             /\ firebaseConfig.messagingSenderId =
                    OptionalEnvValue("NEXT_PUBLIC_FIREBASE_MESSAGING_SENDER_ID")

\* C10 witness: only the api key is missing (set, but empty) and the load failed.
C10_Witness ==
    /\ configModule = "failed"
    /\ MissingEnv = {"NEXT_PUBLIC_FIREBASE_API_KEY"}
    /\ "NEXT_PUBLIC_FIREBASE_API_KEY" \in DOMAIN env

\* ---- generateAudienceSuggestions ----
ClaimedFallback ==
    <<"Tech Professionals", "Young Parents", "Fitness Enthusiasts", "Eco-conscious Foodies">>

\* The list a finished generateAudienceSuggestions run handed to its caller.
Suggested ==
    IF entry = "getAudienceSuggestions" THEN outcome.value.suggestions ELSE outcome.value

\* C11: once ai.generate has settled, generateAudienceSuggestions resolves
\* (never rejects) with a list of exactly 4 strings; when ai.generate threw
\* or returned no output the list is the fixed fallback list.
C11_FourSuggestions ==
    (pc = "done" /\ aiResult.kind # "none") =>
        /\ outcome.kind = "resolved"
        /\ Len(Suggested) = 4
        /\ \A i \in 1..4 : Suggested[i] \in STRING
        /\ aiResult.kind \in {"throw", "null"} => Suggested = ClaimedFallback
        /\ aiResult.kind = "output" => Suggested = aiResult.output

\* C11 witness: ai.generate returned no output and the direct caller got the
\* fallback list.
C11_Witness ==
    /\ pc = "done" /\ entry = "generateAudienceSuggestions"
    /\ aiResult.kind = "null"
    /\ outcome = Resolved(ClaimedFallback)

\* ---- requireServerAuth ----
\* C12: with adminAuth not initialised requireServerAuth rejects with
\* 'Firebase Admin SDK not initialized' whatever the token; otherwise an empty
\* token is rejected with 'Authentication required'; in both cases
\* verifyIdToken is never called.
C12_GuardOrder ==
    /\ authPc = "settled" =>
        /\ ~adminAuth =>
            /\ authResult = [kind |-> "rejected", uid |-> "", error |-> "Firebase Admin SDK not initialized"]
            /\ verifyCalls = <<>>
        /\ (adminAuth /\ idToken = "") =>
            /\ authResult = [kind |-> "rejected", uid |-> "", error |-> "Authentication required"]
            /\ verifyCalls = <<>>
    /\ authPc = "verifying" => (adminAuth /\ idToken # "")

\* C12 witness: no adminAuth and an empty token: the first guard answered.
C12_Witness ==
    /\ authPc = "settled" /\ ~adminAuth /\ idToken = ""
    /\ authResult.error = ErrNotInitialized

\* C13: whenever verifyIdToken rejects, whatever the reason, requireServerAuth
\* rejects with exactly 'Invalid or expired authentication token'; the
\* settlement is the same value for every reason.
C13_MasksVerificationFailure ==
    (authPc = "settled" /\ verifyCalls # <<>> /\ ~decoded.ok) =>
        authResult = [kind |-> "rejected", uid |-> "",
                      error |-> "Invalid or expired authentication token"]

\* C13 witness: the verifier failed on the network for a token it honours.
C13_Witness ==
    /\ authPc = "settled" /\ idToken = "tokAlice"
    /\ decoded.reason = "network"
    /\ authResult.kind = "rejected"

\* ---- vectoriseLogo ----
FetchCalls == {i \in 1..Len(extCalls) : extCalls[i].api = "fetch"}
SubscribeCalls == {i \in 1..Len(extCalls) : extCalls[i].api = "fal.subscribe"}

\* The characters of the second of LogoInputs.
MetadataUrl ==
    <<"h","t","t","p",":","/","/","1","6","9",".","2","5","4",".","1","6","9",".","2","5","4","/","l","a","t","e","s","t","/","m","e","t","a","-","d","a","t","a","/">>

\* C17: vectoriseLogo fetches at most once per call, only the non-empty image
\* url fal.subscribe returned, only after fal.subscribe, and never the
\* caller's logoUrl; every string logoUrl is forwarded to fal.subscribe as it
\* is, with no isAllowedUrl check in between.
C17_FetchesOnlyFalUrl ==
    entry = "vectoriseLogo" =>
        /\ Cardinality(FetchCalls) <= 1
        /\ Cardinality(SubscribeCalls) <= 1
        /\ \A i \in FetchCalls :
            /\ falResult.kind = "data" /\ falResult.url # ""
            /\ extCalls[i].arg = falResult.url
            /\ extCalls[i].arg # logoUrl.text
            /\ \E j \in SubscribeCalls : j < i
        /\ \A j \in SubscribeCalls : extCalls[j].arg = logoUrl.text
        /\ (pc # "vl_start" /\ logoUrl.isString /\ falKey) => SubscribeCalls = {1}

\* C17 witness: a logoUrl isAllowedUrl rejects went to Fal, and the url Fal
\* returned was fetched.
C17_Witness ==
    /\ entry = "vectoriseLogo" /\ pc = "vl_fetch"
    /\ logoUrl.text = "http://169.254.169.254/latest/meta-data/"
    /\ isAllowedUrl(MetadataUrl).value = FALSE
    /\ extCalls = <<ExtCall("fal.subscribe", logoUrl.text), ExtCall("fetch", falResult.url)>>

\* ---- AudienceStepClient ----
\* The request in flight is the one the mounted component sent.
ClientRequest == clientPc = "awaiting"

\* C18 (as amended): with nobody signed in the component sends '' as the ID
\* token; requireServerAuth rejects it without calling verifyIdToken, with
\* 'Authentication required' when adminAuth is initialised and with 'Firebase
\* Admin SDK not initialized' when it is not; ai.generate is not called and
\* the component keeps showing the defaults.
C18_SignedOutKeepsDefaults ==
    currentUser = "" =>
        /\ suggestions = ClaimedFallback
        /\ ClientRequest =>
            /\ idToken = ""
            /\ verifyCalls = <<>>
            /\ \A i \in 1..Len(extCalls) : extCalls[i].api # "ai.generate"
            /\ authPc = "settled" =>
                /\ authResult.kind = "rejected"
                /\ authResult.error = IF adminAuth THEN "Authentication required"
                                      ELSE "Firebase Admin SDK not initialized"
            /\ pc = "done" => outcome.value.success = FALSE

\* C18 as stated: the rejection of the empty token is 'Authentication
\* required'.
C18_Original ==
    (currentUser = "" /\ ClientRequest /\ authPc = "settled") =>
        /\ verifyCalls = <<>>
        /\ authResult.kind = "rejected"
        /\ authResult.error = "Authentication required"

\* C18 witness: the signed-out component received the rejection and still
\* shows the defaults.
C18_Witness ==
    /\ currentUser = "" /\ adminAuth
    /\ clientPc = "settled" /\ pc = "done" /\ entry = "getAudienceSuggestions"
    /\ idToken = "" /\ authResult.error = ErrAuthRequired
    /\ outcome.value.success = FALSE
    /\ suggestions = DefaultSuggestions

\* ---- isAllowedUrl: precedence, dot entries, repeated calls ----
\* The texts the blocked patterns are stated to match.
ClaimedBlockedBodies ==
    {<<"l","o","c","a","l","h","o","s","t">>, <<"1","2","7",".">>, <<"1","0",".">>, <<"1","9","2",".","1","6","8",".">>, <<"1","6","9",".","2","5","4",".">>, <<"0",".">>, <<"[",":",":","1","]">>}
    \cup {<<"1","7","2",".">> \o NatToString(k) \o <<".">> : k \in 16..31}
ClaimedBlockedText(u) ==
    \E pre \in {<<"h","t","t","p",":","/","/">>, <<"h","t","t","p","s",":","/","/">>} :
        \E b \in ClaimedBlockedBodies : startsWith(u, pre \o b)

\* C14: a URL whose text begins with http:// or https:// followed by
\* localhost, 127., 10., 172.16-31., 192.168., 169.254., 0. or [::1] is
\* rejected, also when its parsed hostname is on the allowlist.
C14_BlockedBeforeAllowlist ==
    (Called /\ ClaimedBlockedText(url)) => ret.value = FALSE

\* C14 witness: http://10.fal.ai, whose hostname the allowlist accepts, has
\* been rejected.
C14_Witness ==
    /\ Called
    /\ parts.scheme = <<"h","t","t","p">> /\ parts.sep = <<":","/","/">> /\ parts.userinfo = <<>>
    /\ parts.host = <<"1","0",".","f","a","l",".","a","i">>
    /\ ParseURL(url).ok /\ ClaimedAllowed(ParseURL(url).hostname)
    /\ ret.value = FALSE

BareDomains == {From(sfx, 2) : sfx \in ClaimedSuffixes}

\* h is a bare dot-entry domain or ends with its letters without the dot
\* boundary, or is a subdomain of an exact entry.
OffAllowlistLookalike(h) ==
    \/ \E d \in BareDomains : endsWith(h, d) /\ ~endsWith(h, <<".">> \o d)
    \/ \E e \in ClaimedExactHosts : endsWith(h, <<".">> \o e)

\* C15 (as amended): for a URL that does not start with 'data:', the bare
\* domains r2.dev, fal.media, fal.ai, replicate.delivery and replicate.com,
\* hostnames that end with their letters without the dot boundary, and
\* subdomains of firebasestorage.googleapis.com and storage.googleapis.com
\* are rejected.
C15_DotEntriesSubdomainsOnly ==
    (Called /\ ~IsDataUri) =>
        With(ParseURL(url), LAMBDA parsed :
            (parsed.ok /\ OffAllowlistLookalike(parsed.hostname)) => ret.value = FALSE)

\* C15 as stated: such hostnames are rejected by isAllowedUrl.
C15_Original ==
    Called =>
        With(ParseURL(url), LAMBDA parsed :
            (parsed.ok /\ OffAllowlistLookalike(parsed.hostname)) => ret.value = FALSE)

\* C15 witness: https://evilfal.ai has been rejected.
C15_Witness ==
    /\ Called
    /\ parts.scheme = <<"h","t","t","p","s">> /\ parts.sep = <<":","/","/">> /\ parts.userinfo = <<>>
    /\ parts.host = <<"e","v","i","l","f","a","l",".","a","i">>
    /\ ParseURL(url).hostname = parts.host
    /\ ret.value = FALSE

\* C16: every call returns what isAllowedUrl gives for its argument alone,
\* whatever calls came before it, so equal arguments get equal results; no
\* RegExp object's lastIndex ever leaves 0.
C16_Deterministic ==
    /\ \A i \in 1..Len(calls) : calls[i].ret = isAllowedUrl(calls[i].url)
    /\ \A i, j \in 1..Len(calls) :
        calls[i].url = calls[j].url => calls[i].ret = calls[j].ret
    /\ lastIndex = NoLastIndex

\* C16 witness: a URL that a blocked pattern matches and the allowlist would
\* accept was rejected twice, with a call on another string in between.
C16_Witness ==
    /\ Len(calls) = 3
    /\ calls[1].url = calls[3].url /\ calls[2].url # calls[1].url
    /\ urlBlocked(calls[1].url) /\ hostAllowed(ParseURL(calls[1].url).hostname)
    /\ calls[1].ret.value = FALSE /\ calls[3].ret.value = FALSE

=============================================================================
